---- MODULE Spec2Model ----
(***************************************************************************)
(* Model of log.go: ErrorStream and AuditStream, two pull iterators over   *)
(* a JSON record stream (Next / Event / WriteTo / Close), and countWriter. *)
(*                                                                         *)
(* The input source is a finite sequence of wire records followed by       *)
(* end-of-input.  A wire record is well formed ("ok"), structurally valid  *)
(* JSON of the wrong shape ("type": json.Decoder consumes the value and    *)
(* returns an UnmarshalTypeError without poisoning the decoder), or        *)
(* syntactically broken ("syntax": json.Decoder keeps the error and        *)
(* returns it from every later Decode).  End-of-input and read errors are  *)
(* kept by the decoder as well.  A closable source either goes on serving  *)
(* reads after its Close (the bytes were buffered) or fails them.          *)
(***************************************************************************)
EXTENDS Integers, Sequences, FiniteSets, TLC

VARIABLES
    kind,           \* "error" (ErrorStream) or "audit" (AuditStream)
    input,          \* the wire records the source delivers, then EOF
    closable,       \* the source implements io.Closer (s.closer != nil)
    closeRes,       \* what closer.Close() returns
    readAfterClose, \* "ok": reads after Close still served; "fail": they error
    decoder,        \* s.decoder: [pos, err] (next record, json.Decoder's kept error)
    event,          \* s.event
    err,            \* s.err
    closed,         \* s.closed
    closeCalls,     \* number of times closer.Close() has been invoked
    op,             \* the last call made on the stream, its results and pre-state
    yielded,        \* the events Event() showed after each Next that returned true
    onlyNext,       \* no call other than Next has been made so far
    terminated,     \* Next returned false once, or Close or WriteTo was called
    cw,             \* a countWriter on its own: [N, room], room being its sink W
    cwLog           \* its last Write: argument, results, and the sink's reports summed

vars == <<kind, input, closable, closeRes, readAfterClose, decoder, event, err,
          closed, closeCalls, op, yielded, onlyNext, terminated, cw, cwLog>>

----------------------------------------------------------------------------
(* Bounds *)

MaxLen == 3          \* longest input, in records
MaxCloseCalls == 3   \* calls are explored while closer.Close() ran fewer times
MaxRoom == 40        \* largest sink capacity of the countWriter on its own

----------------------------------------------------------------------------
(* Error values *)

E(t, at) == [type |-> t, at |-> at]
Nil == E("nil", 0)
EOF == E("EOF", 0)
CloseError == E("CloseError", 0)
ReadError == E("ReadError", 0)
WriteError == E("WriteError", 0)
SyntaxError(at) == E("SyntaxError", at)
UnmarshalTypeError(at) == E("UnmarshalTypeError", at)

DecodeErrorTypes == {"SyntaxError", "UnmarshalTypeError"}

----------------------------------------------------------------------------
(* Wire records *)

ErrorBodies == { [message |-> "a"], [message |-> "bc"] }

AuditBodies ==
    { [time |-> "2024-01-01T00:00:00Z",
       request |-> [ip |-> "10.0.0.1", path |-> "/v1/key/create", identity |-> "abc123"],
       response |-> [code |-> 200, time |-> 15000000]],
      [time |-> "2024-01-02T00:00:00Z",
       request |-> [ip |-> "::1", path |-> "/version", identity |-> "f00"],
       response |-> [code |-> 50, time |-> 7]] }

Bodies(k) == IF k = "error" THEN ErrorBodies ELSE AuditBodies

WireRecords(k) ==
    [shape : {"ok"}, body : Bodies(k)]
        \cup { [shape |-> s, body |-> CHOOSE b \in Bodies(k) : TRUE] : s \in {"type", "syntax"} }

Inputs(k) == UNION { [1..n -> WireRecords(k)] : n \in 0..MaxLen }

ZeroErrorEvent == [Message |-> ""]
ZeroAuditEvent == [Timestamp |-> "", APIPath |-> "", ClientIP |-> "",
                   ClientIdentity |-> "", StatusCode |-> 0, ResponseTime |-> 0]

----------------------------------------------------------------------------
(* json.Decoder.Decode as the streams use it.  d is the decoder, cc the     *)
(* number of closer.Close() calls made so far.                             *)

Decode(d, cc) ==
    IF d.err # Nil
    THEN [dec |-> d, err |-> d.err, resp |-> <<>>]
    ELSE IF cc > 0 /\ readAfterClose = "fail"
    THEN [dec |-> [d EXCEPT !.err = ReadError], err |-> ReadError, resp |-> <<>>]
    ELSE IF d.pos > Len(input)
    THEN [dec |-> [d EXCEPT !.err = EOF], err |-> EOF, resp |-> <<>>]
    ELSE LET r == input[d.pos] IN
         CASE r.shape = "syntax" ->
                [dec |-> [d EXCEPT !.err = SyntaxError(d.pos)],
                 err |-> SyntaxError(d.pos), resp |-> <<>>]
           [] r.shape = "type" ->
                [dec |-> [d EXCEPT !.pos = @ + 1],
                 err |-> UnmarshalTypeError(d.pos), resp |-> <<>>]
           [] OTHER ->
                [dec |-> [d EXCEPT !.pos = @ + 1], err |-> Nil, resp |-> <<r.body>>]

----------------------------------------------------------------------------
(* json.Encoder.Encode: the size in bytes of the line it writes.           *)

RECURSIVE Digits(_)
Digits(n) == IF n < 10 THEN 1 ELSE 1 + Digits(n \div 10)

ErrorEncodedSize(resp) == 15 + Len(resp.message)

AuditEncodedSize(resp) ==
    85 + Len(resp.time) + Len(resp.request.ip) + Len(resp.request.path)
       + Len(resp.request.identity) + Digits(resp.response.code)
       + Digits(resp.response.time)

(* The sink w: it accepts room more bytes, then fails the write that does  *)
(* not fit after taking the part that does.                                *)
SinkWrite(room, len) ==
    IF len <= room THEN [n |-> len, err |-> Nil, room |-> room - len]
    ELSE [n |-> room, err |-> WriteError, room |-> 0]

NoLimit == 1000
SinkRooms == {0, 20, 150, NoLimit}

(* Write counting only the writes that succeeded *)
countWriter_Write_DropPartial(cw0, len) ==
    LET w == SinkWrite(cw0.room, len) IN
    [cw |-> [N |-> IF w.err = Nil THEN cw0.N + w.n ELSE cw0.N, room |-> w.room],
     n |-> w.n, err |-> w.err]

(* Write counting the bytes it was asked to write *)
countWriter_Write_CountRequested(cw0, len) ==
    LET w == SinkWrite(cw0.room, len) IN
    [cw |-> [N |-> cw0.N + len, room |-> w.room], n |-> w.n, err |-> w.err]

(* Write overwriting N instead of adding to it *)
countWriter_Write_Overwrite(cw0, len) ==
    LET w == SinkWrite(cw0.room, len) IN
    [cw |-> [N |-> w.n, room |-> w.room], n |-> w.n, err |-> w.err]

(* countWriter.Write: forwards p to W and adds what W reports to N.        *)
countWriter_Write(cw0, len) ==
    LET w == SinkWrite(cw0.room, len) IN
    [cw |-> [N |-> cw0.N + w.n, room |-> w.room], n |-> w.n, err |-> w.err]

----------------------------------------------------------------------------
(* The stream object, as a value: st = [decoder, event, err, closed,       *)
(* closeCalls].                                                            *)

Cur == [decoder |-> decoder, event |-> event, err |-> err, closed |-> closed,
        closeCalls |-> closeCalls]

(* Close storing the closer's result over a stored error *)
ErrorStream_Close_Overwrite(st) ==
    IF ~st.closed
    THEN LET st1 == [st EXCEPT !.closed = TRUE] IN
         IF closable
         THEN [st |-> [st1 EXCEPT !.closeCalls = @ + 1, !.err = closeRes],
               ret |-> closeRes]
         ELSE [st |-> st1, ret |-> st1.err]
    ELSE [st |-> st, ret |-> st.err]

(* Close returning nil when the source has no closer *)
ErrorStream_Close_NilWithoutCloser(st) ==
    IF ~st.closed
    THEN LET st1 == [st EXCEPT !.closed = TRUE] IN
         IF closable
         THEN LET e == closeRes
                  st2 == [st1 EXCEPT !.closeCalls = @ + 1,
                                     !.err = IF @ = Nil THEN e ELSE @]
              IN [st |-> st2, ret |-> e]
         ELSE [st |-> st1, ret |-> Nil]
    ELSE [st |-> st, ret |-> st.err]

(* Close without the closed flag's guard *)
ErrorStream_Close_Reclose(st) ==
    LET st1 == [st EXCEPT !.closed = TRUE] IN
    IF closable
    THEN LET e == closeRes
             st2 == [st1 EXCEPT !.closeCalls = @ + 1,
                                !.err = IF @ = Nil THEN e ELSE @]
         IN [st |-> st2, ret |-> e]
    ELSE [st |-> st1, ret |-> st1.err]

ErrorStream_Close(st) ==
    IF ~st.closed
    THEN LET st1 == [st EXCEPT !.closed = TRUE] IN
         IF closable
         THEN LET e == closeRes
                  st2 == [st1 EXCEPT !.closeCalls = @ + 1,
                                     !.err = IF @ = Nil THEN e ELSE @]
              IN [st |-> st2, ret |-> e]
         ELSE [st |-> st1, ret |-> st1.err]
    ELSE [st |-> st, ret |-> st.err]

AuditStream_Close(st) ==
    IF ~st.closed
    THEN LET st1 == [st EXCEPT !.closed = TRUE] IN
         IF closable
         THEN LET e == closeRes
                  st2 == [st1 EXCEPT !.closeCalls = @ + 1,
                                     !.err = IF @ = Nil THEN e ELSE @]
              IN [st |-> st2, ret |-> e]
         ELSE [st |-> st1, ret |-> st1.err]
    ELSE [st |-> st, ret |-> st.err]

ErrorEvent(resp) == [Message |-> resp.message]

(* the request's fields crossed over *)
AuditEvent_Crossed(resp) ==
    [Timestamp |-> resp.time,
     APIPath |-> resp.request.ip,
     ClientIP |-> resp.request.path,
     ClientIdentity |-> resp.request.identity,
     StatusCode |-> resp.response.code,
     ResponseTime |-> resp.response.time]

AuditEvent(resp) ==
    [Timestamp |-> resp.time,
     APIPath |-> resp.request.path,
     ClientIP |-> resp.request.ip,
     ClientIdentity |-> resp.request.identity,
     StatusCode |-> resp.response.code,
     ResponseTime |-> resp.response.time]

(* Next's early return *)
ErrorStream_Next_Done_ErrOnly(st) == st.err # Nil

ErrorStream_Next_Done(st) == st.err # Nil \/ st.closed

(* Next's handling of a Decode error e; st1 is the stream after Decode *)
ErrorStream_Next_Failed_Swallow(st1, e) ==
    IF e = EOF
    THEN LET c == ErrorStream_Close(st1) IN [c.st EXCEPT !.err = c.ret]
    ELSE st1

ErrorStream_Next_Failed_NoClose(st1, e) == [st1 EXCEPT !.err = e]

ErrorStream_Next_Failed_AlwaysClose(st1, e) ==
    LET c == ErrorStream_Close(st1) IN
    IF e = EOF THEN [c.st EXCEPT !.err = c.ret] ELSE [c.st EXCEPT !.err = e]

ErrorStream_Next_Failed_ClearEvent(st1, e) ==
    IF e = EOF
    THEN LET c == ErrorStream_Close(st1) IN [c.st EXCEPT !.err = c.ret]
    ELSE [st1 EXCEPT !.err = e, !.event = ZeroErrorEvent]

ErrorStream_Next_Failed(st1, e) ==
    IF e = EOF
    THEN LET c == ErrorStream_Close(st1) IN [c.st EXCEPT !.err = c.ret]
    ELSE [st1 EXCEPT !.err = e]

ErrorStream_Next(st) ==
    IF ErrorStream_Next_Done(st)
    THEN [st |-> st, ret |-> FALSE, decodes |-> 0]
    ELSE LET d == Decode(st.decoder, st.closeCalls)
             st1 == [st EXCEPT !.decoder = d.dec]
         IN IF d.err # Nil
            THEN [st |-> ErrorStream_Next_Failed(st1, d.err), ret |-> FALSE, decodes |-> 1]
            ELSE [st |-> [st1 EXCEPT !.event = ErrorEvent(d.resp[1])],
                  ret |-> TRUE, decodes |-> 1]

AuditStream_Next_Done(st) == st.closed \/ st.err # Nil

AuditStream_Next_Failed(st1, e) ==
    IF e = EOF
    THEN LET c == AuditStream_Close(st1) IN [c.st EXCEPT !.err = c.ret]
    ELSE [st1 EXCEPT !.err = e]

AuditStream_Next(st) ==
    IF AuditStream_Next_Done(st)
    THEN [st |-> st, ret |-> FALSE, decodes |-> 0]
    ELSE LET d == Decode(st.decoder, st.closeCalls)
             st1 == [st EXCEPT !.decoder = d.dec]
         IN IF d.err # Nil
            THEN [st |-> AuditStream_Next_Failed(st1, d.err), ret |-> FALSE, decodes |-> 1]
            ELSE [st |-> [st1 EXCEPT !.event = AuditEvent(d.resp[1])],
                  ret |-> TRUE, decodes |-> 1]

(* The for loop of WriteTo with a record of the wrong shape skipped *)
RECURSIVE ErrorStream_WriteToLoop_SkipBad(_, _, _)
ErrorStream_WriteToLoop_SkipBad(st, cw0, k) ==
    LET d == Decode(st.decoder, st.closeCalls)
        st1 == [st EXCEPT !.decoder = d.dec]
    IN IF d.err # Nil
       THEN IF d.err = EOF
            THEN LET c == ErrorStream_Close(st1)
                 IN [st |-> [c.st EXCEPT !.err = c.ret], n |-> cw0.N, ret |-> c.ret,
                     decodes |-> k + 1, stop |-> "eof"]
            ELSE IF d.err.type = "UnmarshalTypeError"
            THEN ErrorStream_WriteToLoop_SkipBad(st1, cw0, k + 1)
            ELSE [st |-> [st1 EXCEPT !.err = d.err], n |-> cw0.N, ret |-> d.err,
                  decodes |-> k + 1, stop |-> "decode"]
       ELSE LET w == countWriter_Write(cw0, ErrorEncodedSize(d.resp[1]))
            IN IF w.err # Nil
               THEN [st |-> [st1 EXCEPT !.err = w.err], n |-> w.cw.N, ret |-> w.err,
                     decodes |-> k + 1, stop |-> "encode"]
               ELSE ErrorStream_WriteToLoop_SkipBad(st1, w.cw, k + 1)

(* The for loop of WriteTo; cw0 is the countWriter, k the Decode calls made, *)
(* stop the return it left by: "eof" and "decode" for the return after     *)
(* Decode failed, "encode" for the one after Encode failed.                *)
RECURSIVE ErrorStream_WriteToLoop(_, _, _)
ErrorStream_WriteToLoop(st, cw0, k) ==
    LET d == Decode(st.decoder, st.closeCalls)
        st1 == [st EXCEPT !.decoder = d.dec]
    IN IF d.err # Nil
       THEN IF d.err = EOF
            THEN LET c == ErrorStream_Close(st1)
                 IN [st |-> [c.st EXCEPT !.err = c.ret], n |-> cw0.N, ret |-> c.ret,
                     decodes |-> k + 1, stop |-> "eof"]
            ELSE [st |-> [st1 EXCEPT !.err = d.err], n |-> cw0.N, ret |-> d.err,
                  decodes |-> k + 1, stop |-> "decode"]
       ELSE LET w == countWriter_Write(cw0, ErrorEncodedSize(d.resp[1]))
            IN IF w.err # Nil
               THEN [st |-> [st1 EXCEPT !.err = w.err], n |-> w.cw.N, ret |-> w.err,
                     decodes |-> k + 1, stop |-> "encode"]
               ELSE ErrorStream_WriteToLoop(st1, w.cw, k + 1)

ErrorStream_WriteTo(st, room) == ErrorStream_WriteToLoop(st, [N |-> 0, room |-> room], 0)

RECURSIVE AuditStream_WriteToLoop(_, _, _)
AuditStream_WriteToLoop(st, cw0, k) ==
    LET d == Decode(st.decoder, st.closeCalls)
        st1 == [st EXCEPT !.decoder = d.dec]
    IN IF d.err # Nil
       THEN IF d.err = EOF
            THEN LET c == AuditStream_Close(st1)
                 IN [st |-> [c.st EXCEPT !.err = c.ret], n |-> cw0.N, ret |-> c.ret,
                     decodes |-> k + 1, stop |-> "eof"]
            ELSE [st |-> [st1 EXCEPT !.err = d.err], n |-> cw0.N, ret |-> d.err,
                  decodes |-> k + 1, stop |-> "decode"]
       ELSE LET w == countWriter_Write(cw0, AuditEncodedSize(d.resp[1]))
            IN IF w.err # Nil
               THEN [st |-> [st1 EXCEPT !.err = w.err], n |-> w.cw.N, ret |-> w.err,
                     decodes |-> k + 1, stop |-> "encode"]
               ELSE AuditStream_WriteToLoop(st1, w.cw, k + 1)

AuditStream_WriteTo(st, room) == AuditStream_WriteToLoop(st, [N |-> 0, room |-> room], 0)

----------------------------------------------------------------------------
(* The state machine *)

NewStream(k) ==
    [decoder |-> [pos |-> 1, err |-> Nil],
     event |-> IF k = "error" THEN ZeroErrorEvent ELSE ZeroAuditEvent,
     err |-> Nil, closed |-> FALSE, closeCalls |-> 0]

InitStream ==
    /\ kind \in {"error", "audit"}
    /\ input \in Inputs(kind)
    /\ closable \in BOOLEAN
    /\ closeRes \in IF closable THEN {Nil, CloseError} ELSE {Nil}
    /\ readAfterClose \in IF closable THEN {"ok", "fail"} ELSE {"ok"}
    /\ decoder = NewStream(kind).decoder
    /\ event = NewStream(kind).event
    /\ err = NewStream(kind).err
    /\ closed = NewStream(kind).closed
    /\ closeCalls = 0
    /\ op = [name |-> "New", ok |-> TRUE, e |-> Nil, n |-> 0, decodes |-> 0,
             room |-> 0, stop |-> "", pre |-> NewStream(kind), preTerminated |-> FALSE]
    /\ yielded = <<>>
    /\ onlyNext = TRUE
    /\ terminated = FALSE

Init ==
    /\ InitStream
    /\ cw = [N |-> 0, room |-> 0]
    /\ cwLog = [p |-> 0, n |-> 0, err |-> Nil, sum |-> 0, prevN |-> 0, sink |-> SinkWrite(0, 0)]

Store(st) ==
    /\ decoder' = st.decoder
    /\ event' = st.event
    /\ err' = st.err
    /\ closed' = st.closed
    /\ closeCalls' = st.closeCalls
    /\ UNCHANGED <<kind, input, closable, closeRes, readAfterClose, cw, cwLog>>

Called(name, ok, e, n, decodes, room, stop) ==
    op' = [name |-> name, ok |-> ok, e |-> e, n |-> n, decodes |-> decodes,
           room |-> room, stop |-> stop, pre |-> Cur, preTerminated |-> terminated]

DoNext(r) ==
    /\ Store(r.st)
    /\ Called("Next", r.ret, Nil, 0, r.decodes, 0, "")
    /\ yielded' = IF r.ret THEN Append(yielded, r.st.event) ELSE yielded
    /\ terminated' = (terminated \/ ~r.ret)
    /\ UNCHANGED onlyNext

DoWriteTo(r, room) ==
    /\ Store(r.st)
    /\ Called("WriteTo", TRUE, r.ret, r.n, r.decodes, room, r.stop)
    /\ terminated' = TRUE
    /\ onlyNext' = FALSE
    /\ UNCHANGED yielded

DoClose(r) ==
    /\ Store(r.st)
    /\ Called("Close", TRUE, r.ret, 0, 0, 0, "")
    /\ terminated' = TRUE
    /\ onlyNext' = FALSE
    /\ UNCHANGED yielded

ErrorStreamNext ==
    /\ kind = "error" /\ closeCalls < MaxCloseCalls
    /\ DoNext(ErrorStream_Next(Cur))

ErrorStreamWriteTo ==
    /\ kind = "error" /\ closeCalls < MaxCloseCalls
    /\ \E room \in SinkRooms : DoWriteTo(ErrorStream_WriteTo(Cur, room), room)

ErrorStreamClose ==
    /\ kind = "error" /\ closeCalls < MaxCloseCalls
    /\ DoClose(ErrorStream_Close(Cur))

AuditStreamNext ==
    /\ kind = "audit" /\ closeCalls < MaxCloseCalls
    /\ DoNext(AuditStream_Next(Cur))

AuditStreamWriteTo ==
    /\ kind = "audit" /\ closeCalls < MaxCloseCalls
    /\ \E room \in SinkRooms : DoWriteTo(AuditStream_WriteTo(Cur, room), room)

AuditStreamClose ==
    /\ kind = "audit" /\ closeCalls < MaxCloseCalls
    /\ DoClose(AuditStream_Close(Cur))

Next ==
    \/ ErrorStreamNext
    \/ ErrorStreamWriteTo
    \/ ErrorStreamClose
    \/ AuditStreamNext
    \/ AuditStreamWriteTo
    \/ AuditStreamClose

Spec == Init /\ [][Next]_vars

----------------------------------------------------------------------------
(* countWriter on its own: a writer over a sink of some capacity, written  *)
(* to with buffers of the lengths Encode produces, and of length 0.        *)

WriteLens ==
    {0} \cup { ErrorEncodedSize(b) : b \in ErrorBodies }
        \cup { AuditEncodedSize(b) : b \in AuditBodies }

InitCountWriter ==
    /\ InitStream
    /\ kind = "error" /\ input = <<>> /\ ~closable
    /\ cw \in [N : {0}, room : 0..MaxRoom]
    /\ cwLog = [p |-> 0, n |-> 0, err |-> Nil, sum |-> 0, prevN |-> 0,
                sink |-> SinkWrite(cw.room, 0)]

countWriterWrite ==
    \E len \in WriteLens :
        LET r == countWriter_Write(cw, len)
            w == SinkWrite(cw.room, len)
        IN /\ cw' = r.cw
           /\ cwLog' = [p |-> len, n |-> r.n, err |-> r.err, sum |-> cwLog.sum + w.n,
                        prevN |-> cw.N, sink |-> w]
           /\ UNCHANGED <<kind, input, closable, closeRes, readAfterClose, decoder,
                          event, err, closed, closeCalls, op, yielded, onlyNext,
                          terminated>>

NextCountWriter == countWriterWrite

SpecCountWriter == InitCountWriter /\ [][NextCountWriter]_vars

----------------------------------------------------------------------------
TypeOK ==
    /\ kind \in {"error", "audit"}
    /\ Len(input) <= MaxLen
    /\ closed \in BOOLEAN
    /\ closeCalls \in 0..MaxCloseCalls
    /\ decoder.pos \in 1..(Len(input) + 1)

----------------------------------------------------------------------------
(* Vocabulary of the properties *)

WellFormed == \A i \in 1..Len(input) : input[i].shape = "ok"

\* position of the first malformed record, Len(input) + 1 if there is none
FirstMalformed ==
    IF WellFormed THEN Len(input) + 1
    ELSE CHOOSE k \in 1..Len(input) :
            /\ input[k].shape # "ok"
            /\ \A i \in 1..(k - 1) : input[i].shape = "ok"

\* Event() is the mapping of wire record r
Maps(ev, r) ==
    IF kind = "error"
    THEN ev.Message = r.body.message
    ELSE /\ ev.Timestamp = r.body.time
         /\ ev.APIPath = r.body.request.path
         /\ ev.ClientIP = r.body.request.ip
         /\ ev.ClientIdentity = r.body.request.identity
         /\ ev.StatusCode = r.body.response.code
         /\ ev.ResponseTime = r.body.response.time

\* the i-th true Next showed the i-th input record
InInputOrder ==
    /\ Len(yielded) <= Len(input)
    /\ \A i \in 1..Len(yielded) : Maps(yielded[i], input[i])

ImplicitCloseResult == IF closable THEN closeRes ELSE Nil

NextReturnedFalse == op.name = "Next" /\ ~op.ok

----------------------------------------------------------------------------
\* C1 (as stated): on well-formed input of N records, Next alone on a fresh
\* stream returns true exactly N times, the i-th showing the i-th record, then
\* false, and the stored error is nil afterwards.
C1_NilAfterAllRecords ==
    (onlyNext /\ WellFormed) =>
        /\ InInputOrder
        /\ NextReturnedFalse => (Len(yielded) = Len(input) /\ err = Nil)

\* C1 (amended): as above, but the stored error afterwards is the result of
\* the implicit close: nil when the source is not closable or its close
\* succeeds, the close error when it fails.
C1_AllRecordsThenCloseResult ==
    (onlyNext /\ WellFormed) =>
        /\ InInputOrder
        /\ NextReturnedFalse =>
              (Len(yielded) = Len(input) /\ err = ImplicitCloseResult)

C1_Witness ==
    /\ onlyNext /\ WellFormed /\ Len(input) >= 2
    /\ NextReturnedFalse /\ Len(yielded) = Len(input)
    /\ closable /\ closeRes = CloseError

\* C2: once the stream has terminated (a Next returned false, or Close or
\* WriteTo was called), every Next returns false and does not touch the decoder.
C2_NoNextAfterTermination ==
    (op.name = "Next" /\ op.preTerminated) =>
        /\ ~op.ok
        /\ op.decodes = 0
        /\ decoder = op.pre.decoder

\* a Next on a cleanly closed stream whose decoder could still deliver a record
C2_Witness ==
    /\ op.name = "Next" /\ op.preTerminated
    /\ op.pre.closed /\ op.pre.err = Nil
    /\ op.pre.decoder.err = Nil /\ op.pre.decoder.pos <= Len(input)
    /\ readAfterClose = "ok"

\* C3: once the stored error is non-nil, no call changes it.
C3_StickyError == [][err # Nil => err' = err]_vars

\* C4: the underlying close is invoked at most once.
C4_CloseAtMostOnce == closeCalls <= 1

\* a Close call on a stream whose source was already closed
C4_Witness ==
    /\ op.name = "Close" /\ op.pre.closed /\ op.pre.closeCalls = 1
    /\ closeCalls = 1

----------------------------------------------------------------------------
\* C5: two Close calls in a row return the same error.
C5_CloseTwiceSameError ==
    [][(op.name = "Close" /\ op'.name = "Close") => op'.e = op.e]_vars

\* C6: the first Close on a closable source stores the close error only if no
\* error was stored before, and returns the stored error as it stands after
\* the call.
C6_FirstCloseReturnsStored ==
    (op.name = "Close" /\ ~op.pre.closed /\ closable) =>
        /\ err = (IF op.pre.err = Nil THEN closeRes ELSE op.pre.err)
        /\ op.e = err

\* C7: with the first malformed record at position k, Next alone on a fresh
\* stream returns true exactly k-1 times, then false with a decode error stored.
C7_StopsAtFirstMalformed ==
    (onlyNext /\ ~WellFormed) =>
        /\ Len(yielded) <= FirstMalformed - 1
        /\ NextReturnedFalse =>
              /\ Len(yielded) = FirstMalformed - 1
              /\ err # Nil
              /\ err.type \in DecodeErrorTypes
              /\ err.at = FirstMalformed

C7_Witness ==
    /\ onlyNext /\ ~WellFormed /\ FirstMalformed >= 2
    /\ NextReturnedFalse /\ op.preTerminated
    /\ Len(yielded) = FirstMalformed - 1

EncodedSize(r) ==
    IF kind = "error" THEN ErrorEncodedSize(r.body) ELSE AuditEncodedSize(r.body)

\* total encoded size of the first n input records
RECURSIVE SizeOfFirst(_)
SizeOfFirst(n) == IF n = 0 THEN 0 ELSE SizeOfFirst(n - 1) + EncodedSize(input[n])

FreshWriteToAll ==
    op.name = "WriteTo" /\ op.pre = NewStream(kind) /\ op.room = NoLimit

\* C8 (as stated): WriteTo on a fresh stream into a sink that accepts every
\* write returns the total encoded size of the records before the first
\* malformed one or end-of-input, with a nil error over N valid records and
\* the decode error when record k is malformed.
C8_WriteToCountNilError ==
    FreshWriteToAll =>
        /\ op.n = SizeOfFirst(FirstMalformed - 1)
        /\ WellFormed => op.e = Nil
        /\ ~WellFormed => (op.e.type \in DecodeErrorTypes /\ op.e.at = FirstMalformed)

\* C8 (amended): as above, but over N valid records the error returned is the
\* result of the implicit close: nil when the source is not closable or its
\* close succeeds, the close error when it fails.
C8_WriteToCountCloseResult ==
    FreshWriteToAll =>
        /\ op.n = SizeOfFirst(FirstMalformed - 1)
        /\ WellFormed => op.e = ImplicitCloseResult
        /\ ~WellFormed => (op.e.type \in DecodeErrorTypes /\ op.e.at = FirstMalformed)

C8_Witness ==
    /\ FreshWriteToAll /\ ~WellFormed /\ FirstMalformed >= 3
    /\ op.n = SizeOfFirst(2) /\ op.n > 0

StreamNext(st) == IF kind = "error" THEN ErrorStream_Next(st) ELSE AuditStream_Next(st)

StreamWriteTo(st, room) ==
    IF kind = "error" THEN ErrorStream_WriteTo(st, room) ELSE AuditStream_WriteTo(st, room)

\* the stream after calling Next until it returns false
RECURSIVE NextUntilFalse(_)
NextUntilFalse(st) ==
    LET r == StreamNext(st) IN IF r.ret THEN NextUntilFalse(r.st) ELSE r.st

\* C9: from any state, WriteTo into an always-accepting sink ends in the same
\* stream state as Next called until it returns false: same records consumed,
\* same closed flag, same stored error, same number of underlying closes.
C9_WriteToSameAsNextLoop ==
    LET w == StreamWriteTo(Cur, NoLimit).st
        m == NextUntilFalse(Cur)
    IN /\ w.decoder.pos = m.decoder.pos
       /\ w.closed = m.closed
       /\ w.err = m.err
       /\ w.closeCalls = m.closeCalls

\* C9 seen from the states that are still Open
C9_OpenOnly == (~closed /\ err = Nil) => C9_WriteToSameAsNextLoop

NextAtEndOfInput ==
    /\ op.name = "Next"
    /\ ~op.pre.closed /\ op.pre.err = Nil
    /\ \/ op.pre.decoder.err = EOF
       \/ op.pre.decoder.err = Nil /\ op.pre.decoder.pos > Len(input)

\* C10: a Next that reaches end-of-input on an Open stream sets the closed
\* flag, invokes the underlying close exactly once if the source is closable,
\* stores the result of that close (nil if not closable) and returns false.
C10_NextAtEOFCloses ==
    NextAtEndOfInput =>
        /\ closed
        /\ closeCalls = op.pre.closeCalls + (IF closable THEN 1 ELSE 0)
        /\ err = ImplicitCloseResult
        /\ ~op.ok

C10_Witness ==
    /\ NextAtEndOfInput /\ closable /\ closeRes = CloseError
    /\ Len(input) >= 1 /\ closeCalls = 1

----------------------------------------------------------------------------
\* the records a call consumed: the decoder moved over them
Consumed == decoder.pos - op.pre.decoder.pos

\* total encoded size of input records a..b
SizeOfRange(a, b) == IF b < a THEN 0 ELSE SizeOfFirst(b) - SizeOfFirst(a - 1)

WriteToRejected == op.name = "WriteTo" /\ op.stop = "encode"

\* C11: when the sink rejects a record during WriteTo, WriteTo returns the
\* write error and the count of all bytes the sink took, the part of the
\* failing write included; the failing record is the last one decoded, the
\* error is stored and the underlying resource is not closed by the call.
C11_SinkRejects ==
    WriteToRejected =>
        /\ op.e = WriteError
        /\ op.n = op.room
        /\ op.decodes = Consumed
        /\ SizeOfRange(op.pre.decoder.pos, decoder.pos - 2) <= op.room
        /\ SizeOfRange(op.pre.decoder.pos, decoder.pos - 1) > op.room
        /\ err = WriteError
        /\ closed = op.pre.closed
        /\ closeCalls = op.pre.closeCalls

\* one record written whole, the next one in part, others left undecoded
C11_Witness ==
    /\ WriteToRejected /\ op.decodes = 2
    /\ op.n > SizeOfRange(op.pre.decoder.pos, decoder.pos - 2)
    /\ decoder.pos <= Len(input) /\ ~closed

\* what the Decode of the last call returned, for a call on an Open stream
PreDecode == Decode(op.pre.decoder, op.pre.closeCalls)

NextDecodeFailed ==
    /\ op.name = "Next" /\ ~op.pre.closed /\ op.pre.err = Nil
    /\ PreDecode.err # Nil /\ PreDecode.err # EOF

\* C12: a Next that fails with an error other than end-of-input stores that
\* error, leaves the closed flag false and does not invoke the underlying close.
C12_DecodeErrorLeavesOpen ==
    NextDecodeFailed =>
        /\ ~op.ok
        /\ err = PreDecode.err
        /\ ~closed
        /\ closeCalls = op.pre.closeCalls

C12_Witness ==
    /\ NextDecodeFailed /\ closable /\ err.type = "SyntaxError"
    /\ yielded # <<>>

CloseOnErrored == op.name = "Close" /\ ~op.pre.closed /\ op.pre.err # Nil

\* C13: an explicit Close on an Errored, not yet closed stream invokes the
\* underlying close exactly once (when there is one) and keeps the stored
\* error whatever the close returns; the close result is stored only when no
\* error was stored before.
C13_CloseKeepsError ==
    /\ CloseOnErrored =>
          /\ closed
          /\ closeCalls = op.pre.closeCalls + (IF closable THEN 1 ELSE 0)
          /\ err = op.pre.err
    /\ (op.name = "Close" /\ ~op.pre.closed /\ op.pre.err = Nil /\ closable) =>
          err = closeRes

C13_Witness ==
    /\ CloseOnErrored /\ closable /\ closeRes = CloseError /\ closeCalls = 1
    /\ err.type \in DecodeErrorTypes

ZeroEvent == IF kind = "error" THEN ZeroErrorEvent ELSE ZeroAuditEvent

\* C14: Event() is the mapping of the last record for which Next returned
\* true, the zero event if there is none: a Next returning false, a Close and
\* a WriteTo leave it alone, so after a failure at record k it shows record k-1.
C14_EventIsLastYielded ==
    /\ event = IF yielded = <<>> THEN ZeroEvent ELSE yielded[Len(yielded)]
    /\ (op.name = "Next" /\ op.ok) => Maps(event, input[op.pre.decoder.pos])
    /\ (op.name \in {"Close", "WriteTo"} \/ NextReturnedFalse) => event = op.pre.event
    /\ (onlyNext /\ NextReturnedFalse /\ ~WellFormed /\ FirstMalformed >= 2) =>
          Maps(event, input[FirstMalformed - 1])

\* a Next failing at record k >= 2 with record k-1 still shown
C14_Witness ==
    /\ onlyNext /\ NextReturnedFalse /\ ~WellFormed /\ FirstMalformed >= 2
    /\ op.decodes = 1 /\ event # ZeroEvent

\* C15: without a close capability Close only sets the closed flag: stored
\* error, event and input position stay, and every Close returns the stored
\* error.
C15_CloseWithoutCloser ==
    (op.name = "Close" /\ ~closable) =>
        /\ closed
        /\ err = op.pre.err
        /\ event = op.pre.event
        /\ decoder = op.pre.decoder
        /\ closeCalls = 0
        /\ op.e = err

C15_Witness ==
    /\ op.name = "Close" /\ ~closable /\ ~op.pre.closed
    /\ err # Nil /\ event # ZeroEvent

\* C16: the counting writer hands every write to the sink unchanged and
\* returns what the sink reports; its counter equals the sum of the byte counts
\* the sink reported over all writes, failed ones included, and never decreases.
C16_CountsWhatSinkReports ==
    /\ cwLog.n = cwLog.sink.n
    /\ cwLog.err = cwLog.sink.err
    /\ cw.room = cwLog.sink.room
    /\ cw.N = cwLog.sum
    /\ cw.N = cwLog.prevN + cwLog.sink.n
    /\ cw.N >= cwLog.prevN

\* a failed write of which the sink took a part, after an earlier write
C16_Witness ==
    /\ cwLog.err = WriteError /\ cwLog.n > 0 /\ cwLog.n < cwLog.p
    /\ cwLog.prevN > 0 /\ cw.N = cwLog.prevN + cwLog.n

\* C17: WriteTo ends after at most one Decode per remaining record plus one:
\* every record it passed was well formed and written, and it returned at the
\* first decode error, at the first write error, or at end-of-input, in which
\* case the stream is closed.
C17_WriteToStops ==
    op.name = "WriteTo" =>
        /\ op.decodes >= 1
        /\ op.decodes <= Len(input) - op.pre.decoder.pos + 2
        /\ \A i \in op.pre.decoder.pos..(op.pre.decoder.pos + op.decodes - 2) :
              input[i].shape = "ok"
        /\ err = op.e
        /\ op.stop \in {"decode", "encode", "eof"}
        /\ op.stop = "decode" => op.e.type \in (DecodeErrorTypes \cup {"ReadError"})
        /\ op.stop = "encode" => op.e = WriteError
        /\ op.stop = "eof" => (closed /\ decoder.err = EOF)

\* a WriteTo that consumed the whole input and closed the stream
C17_Witness ==
    /\ op.name = "WriteTo" /\ op.decodes = Len(input) + 1 /\ Len(input) >= 2
    /\ op.stop = "eof" /\ closed /\ ~op.pre.closed

\* C18: once the closed flag is set no Next or WriteTo invokes the decoder,
\* and a WriteTo on a closed or errored stream returns 0 bytes and the stored
\* error without reading.
C18_NoReadAfterClose ==
    /\ (op.name \in {"Next", "WriteTo"} /\ op.pre.closed) => op.decodes = 0
    /\ (op.name = "WriteTo" /\ (op.pre.closed \/ op.pre.err # Nil)) =>
          /\ op.n = 0
          /\ op.e = op.pre.err
          /\ op.decodes = 0
          /\ decoder = op.pre.decoder

====
